---- MODULE Spec2Model ----
(***************************************************************************)
(* Receipt parser: the regex extractor (parsers/regex_parser.py), the LLM  *)
(* extractor (parsers/llm_parser.py) and the two HTTP handlers that        *)
(* compose them (api.py: /parse with parser = auto | llm | regex, and      *)
(* /compare), and the file harness test_parser.compare_parsers, which      *)
(* calls both extractors without the blank check of the handlers.          *)
(*                                                                         *)
(* Text is a sequence of one-character strings, so that str.strip,         *)
(* str.split and the regular expressions are computed character by         *)
(* character.  A Python value is a tagged record: None, a str, a float     *)
(* (an exact decimal num / 10^scale in lowest form), a list or a dict.     *)
(***************************************************************************)
EXTENDS Integers, Sequences, FiniteSets, TLC

\* ------------------------------------------------------------------ bounds
\* number of text fragments joined by "\n" in one receipt text
MaxLines == 2
\* largest input_tokens / output_tokens count the model reports
MaxTokens == 1

\* ------------------------------------------------------- Python values
None == [t |-> "none"]
Str(s) == [t |-> "str", s |-> s]
Float(n, k) == [t |-> "float", num |-> n, scale |-> k]
List(xs) == [t |-> "list", v |-> xs]

\* Python's == on the values above: equal tags and equal payloads.
PyEq(a, b) == a = b

\* ------------------------------------------------------- characters
Whitespace == {" ", "\n", "\t", "\r"}
Digits == {"0", "1", "2", "3", "4", "5", "6", "7", "8", "9"}

DigitVal(c) ==
  CASE c = "0" -> 0 [] c = "1" -> 1 [] c = "2" -> 2 [] c = "3" -> 3
    [] c = "4" -> 4 [] c = "5" -> 5 [] c = "6" -> 6 [] c = "7" -> 7
    [] c = "8" -> 8 [] c = "9" -> 9

SetMin(S) == CHOOSE x \in S : \A y \in S : x <= y
SetMax(S) == CHOOSE x \in S : \A y \in S : x >= y

\* str.strip(): drop the leading and the trailing whitespace
RECURSIVE LStrip(_)
LStrip(s) == IF s # <<>> /\ Head(s) \in Whitespace THEN LStrip(Tail(s)) ELSE s

RECURSIVE RStrip(_)
RStrip(s) ==
  IF s # <<>> /\ s[Len(s)] \in Whitespace
  THEN RStrip(SubSeq(s, 1, Len(s) - 1))
  ELSE s

Strip(s) == RStrip(LStrip(s))

\* str.split('\n'): always at least one piece
RECURSIVE Split(_)
Split(s) ==
  LET nl == {i \in 1..Len(s) : s[i] = "\n"}
  IN  IF nl = {} THEN <<s>>
      ELSE LET i == SetMin(nl)
           IN  <<SubSeq(s, 1, i - 1)>> \o Split(SubSeq(s, i + 1, Len(s)))

\* str.startswith / a literal of a regular expression at position i
LitAt(s, i, lit) ==
  /\ i + Len(lit) - 1 <= Len(s)
  /\ \A k \in 1..Len(lit) : s[i + k - 1] = lit[k]

\* \s* (greedy): the first position >= i that holds no whitespace
RECURSIVE SkipWs(_, _)
SkipWs(s, i) == IF i <= Len(s) /\ s[i] \in Whitespace THEN SkipWs(s, i + 1) ELSE i

\* \d* (greedy): the first position >= i that holds no digit
RECURSIVE SkipDigits(_, _)
SkipDigits(s, i) == IF i <= Len(s) /\ s[i] \in Digits THEN SkipDigits(s, i + 1) ELSE i

\* . (without DOTALL) repeated greedily: the end of the line holding i
RECURSIVE LineEnd(_, _)
LineEnd(s, i) == IF i <= Len(s) /\ s[i] # "\n" THEN LineEnd(s, i + 1) ELSE i

RECURSIVE DigitsToNat(_)
DigitsToNat(d) ==
  IF d = <<>> THEN 0
  ELSE 10 * DigitsToNat(SubSeq(d, 1, Len(d) - 1)) + DigitVal(d[Len(d)])

RECURSIVE Pow10(_)
Pow10(k) == IF k = 0 THEN 1 ELSE 10 * Pow10(k - 1)

RECURSIVE DropTrailingZeros(_)
DropTrailingZeros(d) ==
  IF d # <<>> /\ d[Len(d)] = "0"
  THEN DropTrailingZeros(SubSeq(d, 1, Len(d) - 1))
  ELSE d

\* float("<digits>.<digits>"): the decimal it denotes, so that "45.00" and
\* "45.0" are the same number and "4.50" and "4.05" are not
ToFloat(ip, fp) ==
  LET f == DropTrailingZeros(fp)
  IN  Float(DigitsToNat(ip) * Pow10(Len(f)) + DigitsToNat(f), Len(f))

\* ------------------------------------------------- regular expressions
NoMatch == [matched |-> FALSE]

\* \$(\d+\.\d+) at position i: float(group(1))
MoneyAt(s, i) ==
  LET d1 == SkipDigits(s, i + 1)
      d2 == SkipDigits(s, d1 + 1)
  IN  IF /\ i <= Len(s) /\ s[i] = "$"
         /\ d1 > i + 1
         /\ d1 <= Len(s) /\ s[d1] = "."
         /\ d2 > d1 + 1
      THEN [matched |-> TRUE,
            value |-> ToFloat(SubSeq(s, i + 1, d1 - 1), SubSeq(s, d1 + 1, d2 - 1))]
      ELSE NoMatch

\* re.search(r"<label>\s*\$(\d+\.\d+)", s): the leftmost match
MoneyAfterLabelAt(s, i, label) ==
  IF LitAt(s, i, label) THEN MoneyAt(s, SkipWs(s, i + Len(label))) ELSE NoMatch

SearchMoney(s, label) ==
  LET hits == {i \in 1..Len(s) : MoneyAfterLabelAt(s, i, label).matched}
  IN  IF hits = {} THEN NoMatch ELSE MoneyAfterLabelAt(s, SetMin(hits), label)

\* re.search(r"Tax.*?:\s*\$(\d+\.\d+)", s): after "Tax" the lazy .*? stops at
\* the first ":" of the same line that is followed by an amount
TaxColons(s, i) ==
  IF ~LitAt(s, i, <<"T", "a", "x">>) THEN {}
  ELSE {j \in (i + 3)..Len(s) :
          /\ s[j] = ":"
          /\ \A k \in (i + 3)..(j - 1) : s[k] # "\n"
          /\ MoneyAt(s, SkipWs(s, j + 1)).matched}

SearchTax(s) ==
  LET hits == {i \in 1..Len(s) : TaxColons(s, i) # {}}
  IN  IF hits = {} THEN NoMatch
      ELSE MoneyAt(s, SkipWs(s, SetMin(TaxColons(s, SetMin(hits))) + 1))

\* re.search(r"<label>\s*(.+)", s): \s* takes the whole whitespace run (line
\* breaks included) and .+ the rest of the line it stops on; when the run
\* reaches the end of the text, \s* gives back up to the last character of
\* the run that is not a line break
RestAfterLabelAt(s, i, label) ==
  IF ~LitAt(s, i, label) THEN NoMatch
  ELSE LET a == i + Len(label)
           k == SkipWs(s, a)
           back == {p \in a..Len(s) : s[p] # "\n"}
       IN  IF k <= Len(s)
           THEN [matched |-> TRUE, group |-> SubSeq(s, k, LineEnd(s, k) - 1)]
           ELSE IF back = {} THEN NoMatch
           ELSE [matched |-> TRUE,
                 group |-> SubSeq(s, SetMax(back), LineEnd(s, SetMax(back)) - 1)]

SearchRest(s, label) ==
  LET hits == {i \in 1..Len(s) : RestAfterLabelAt(s, i, label).matched}
  IN  IF hits = {} THEN NoMatch ELSE RestAfterLabelAt(s, SetMin(hits), label)

\* \s*\.\.\.\s*\$(\d+\.\d+) at position e
ItemTailAt(s, e) ==
  LET d == SkipWs(s, e)
  IN  IF LitAt(s, d, <<".", ".", ".">>) THEN MoneyAt(s, SkipWs(s, d + 3)) ELSE NoMatch

\* -\s*(.+?)\s*\.\.\.\s*\$(\d+\.\d+) at position i: \s* greedy with
\* backtracking (g is where the group starts), (.+?) lazy (e is where it ends)
ItemGroupEnds(s, g) ==
  {e \in (g + 1)..(Len(s) + 1) :
     /\ \A k \in g..(e - 1) : s[k] # "\n"
     /\ ItemTailAt(s, e).matched}

ItemGroupStarts(s, i) ==
  IF i <= Len(s) /\ s[i] = "-"
  THEN {g \in (i + 1)..SkipWs(s, i + 1) : ItemGroupEnds(s, g) # {}}
  ELSE {}

ItemAt(s, i) ==
  LET g == SetMax(ItemGroupStarts(s, i))
      e == SetMin(ItemGroupEnds(s, g))
  IN  [description |-> Strip(SubSeq(s, g, e - 1)), amount |-> ItemTailAt(s, e).value]

\* re.search(item pattern, line): the leftmost match
SearchItem(line) ==
  LET hits == {i \in 1..Len(line) : ItemGroupStarts(line, i) # {}}
  IN  IF hits = {} THEN NoMatch
      ELSE [matched |-> TRUE, item |-> ItemAt(line, SetMin(hits))]

\* ------------------------------------------- regex_parser.parse_receipt
LblDate == <<"D", "a", "t", "e", ":">>
LblInvoice == <<"I", "n", "v", "o", "i", "c", "e", " ", "#", ":">>
LblTotal == <<"T", "O", "T", "A", "L", ":">>
LblSubtotal == <<"S", "u", "b", "t", "o", "t", "a", "l", ":">>

\* a variant that starts the total at 0.0 instead of None
EmptyResultZeroTotal ==
  [merchant |-> None, date |-> None, invoice_number |-> None, items |-> List(<<>>),
   subtotal |-> None, tax |-> None, total |-> Float(0, 0), parser_used |-> "regex"]

\* the dict parse_receipt starts from
EmptyResult ==
  [merchant |-> None, date |-> None, invoice_number |-> None, items |-> List(<<>>),
   subtotal |-> None, tax |-> None, total |-> None, parser_used |-> "regex"]

\* the merchant loop: the first line whose strip() is not empty, stripped
RECURSIVE FirstNonBlank(_)
FirstNonBlank(lines) ==
  IF lines = <<>> THEN NoMatch
  ELSE IF Strip(Head(lines)) # <<>> THEN [matched |-> TRUE, line |-> Head(lines)]
  ELSE FirstNonBlank(Tail(lines))

ExtractMerchant(result, lines) ==
  LET m == FirstNonBlank(lines)
  IN  IF m.matched THEN [result EXCEPT !.merchant = Str(Strip(m.line))] ELSE result

\* `if date_match:` and `if invoice_match:`: the field is set on a match only
ExtractLabelled(result, field, text, label) ==
  LET m == SearchRest(text, label)
  IN  IF m.matched THEN [result EXCEPT ![field] = Str(Strip(m.group))] ELSE result

\* `if total_match:` and `if subtotal_match:`
ExtractMoney(result, field, text, label) ==
  LET m == SearchMoney(text, label)
  IN  IF m.matched THEN [result EXCEPT ![field] = m.value] ELSE result

\* `if tax_match:`
ExtractTax(result, text) ==
  LET m == SearchTax(text)
  IN  IF m.matched THEN [result EXCEPT !.tax = m.value] ELSE result

\* a variant of the items loop that leaves the loop at the first dash-bulleted
\* line the pattern does not match
RECURSIVE ExtractItemsStopAtBad(_)
ExtractItemsStopAtBad(lines) ==
  IF lines = <<>> THEN <<>>
  ELSE LET line == Head(lines)
           m == SearchItem(line)
       IN  IF ~LitAt(Strip(line), 1, <<"-">>) THEN ExtractItemsStopAtBad(Tail(lines))
           ELSE IF m.matched THEN <<m.item>> \o ExtractItemsStopAtBad(Tail(lines))
           ELSE <<>>

\* the items loop: one item per dash-bulleted line that the pattern matches
RECURSIVE ExtractItems(_)
ExtractItems(lines) ==
  IF lines = <<>> THEN <<>>
  ELSE LET line == Head(lines)
           m == SearchItem(line)
       IN  (IF LitAt(Strip(line), 1, <<"-">>) /\ m.matched THEN <<m.item>> ELSE <<>>)
             \o ExtractItems(Tail(lines))

\* result["items"].append(...) for each item of the loop
AppendItems(result, lines) ==
  [result EXCEPT !.items = List(result.items.v \o ExtractItems(lines))]

\* the label searches, in the order of the code
ExtractLabels(result, text) ==
  ExtractTax(
    ExtractMoney(
      ExtractMoney(
        ExtractLabelled(
          ExtractLabelled(result, "date", text, LblDate),
          "invoice_number", text, LblInvoice),
        "total", text, LblTotal),
      "subtotal", text, LblSubtotal),
    text)

RegexParse(text) ==
  AppendItems(ExtractLabels(ExtractMerchant(EmptyResult, Split(Strip(text))), text),
              Split(Strip(text)))

\* ------------------------------------------------------ receipt texts
FragMerchant == <<"A", "C", "M", "E">>
FragItemP == <<"-", " ", "P", " ", ".", ".", ".", " ", "$", "4", ".", "5", "0">>
FragItemQ == <<"-", " ", "Q", " ", ".", ".", ".", " ", "$", "8", ".", "0", "5">>
FragBadItem == <<"-", " ", "S", " ", "$", "1", ".", "9", "9">>
FragLabels ==
  <<"D", "a", "t", "e", ":", " ", "2", "4", "\n",
    "I", "n", "v", "o", "i", "c", "e", " ", "#", ":", " ", "7", "\n",
    "S", "u", "b", "t", "o", "t", "a", "l", ":", " ", "$", "4", ".", "5", "0", "\n",
    "T", "a", "x", " ", "(", "8", "%", ")", ":", " ", "$", "0", ".", "3", "6", "\n",
    "T", "O", "T", "A", "L", ":", " ", "$", "4", ".", "8", "6">>
FragBlank == <<" ">>

Fragments ==
  {FragMerchant, FragLabels, FragItemP, FragItemQ, FragBadItem, FragBlank}

\* "\n".join(pieces)
RECURSIVE Join(_)
Join(pieces) ==
  IF pieces = <<>> THEN <<>>
  ELSE IF Len(pieces) = 1 THEN pieces[1]
  ELSE pieces[1] \o <<"\n">> \o Join(Tail(pieces))

\* the receipt texts: up to MaxLines fragments, joined by line breaks
Texts == {Join(fs) : fs \in UNION {[1..n -> Fragments] : n \in 0..MaxLines}}

\* -------------------------------------------- llm_parser.parse_receipt
\* a variant that never finds the key missing (the check is skipped)
KeyMissingNever(key) == FALSE

\* `if not api_key`: os.getenv gave None or the empty string
KeyMissing(key) == key \in {"absent", "empty"}

\* The reply text is a sequence of tokens: the fence marker (three
\* backquotes), the language tag, whitespace, and document tokens that stand
\* for JSON texts ("prose" for a text that is no JSON).
Fence == "<fence>"
ObjectDocs == {"obj_echo", "obj_other", "obj_null_items", "obj_empty"}
ValidDocs == ObjectDocs \cup {"array", "null"}

Dict(d) == [t |-> "dict", d |-> d]

\* json.loads of one document: obj_echo is the object a model that reads the
\* receipt exactly as the regex parser does would answer
JsonValue(doc, receipt) ==
  CASE doc = "obj_echo" ->
         LET r == RegexParse(receipt)
         IN  Dict([merchant |-> r.merchant, date |-> r.date,
                   invoice_number |-> r.invoice_number, items |-> r.items,
                   subtotal |-> r.subtotal, tax |-> r.tax, total |-> r.total])
    [] doc = "obj_other" ->
         Dict([merchant |-> Str(<<"A", "c", "m", "e">>), date |-> None,
               items |-> List(<<[description |-> <<"P">>, amount |-> Float(45, 1)]>>),
               total |-> Float(486, 2)])
    [] doc = "obj_null_items" ->
         Dict([merchant |-> Str(<<"A", "C", "M", "E">>), items |-> None])
    [] doc = "obj_empty" -> Dict(<<>>)
    [] doc = "array" -> List(<<>>)
    [] doc = "null" -> None

\* json.loads(s): leading and trailing whitespace is allowed around exactly
\* one JSON text; anything else raises JSONDecodeError
JsonLoads(s, receipt) ==
  LET b == Strip(s)
  IN  IF Len(b) = 1 /\ b[1] \in ValidDocs
      THEN [ok |-> TRUE, value |-> JsonValue(b[1], receipt)]
      ELSE [ok |-> FALSE]

\* re.search(fence (?:json)?\s*\n(.*?)\n fence, s, re.DOTALL): g is where the
\* group starts (after the last line break \s*\n can end on), e where the
\* lazy group ends (the first line break followed by a fence)
FenceOpenEnd(s, i) == IF i + 1 <= Len(s) /\ s[i + 1] = "json" THEN i + 2 ELSE i + 1

FenceGroupEnds(s, g) == {e \in g..(Len(s) - 1) : s[e] = "\n" /\ s[e + 1] = Fence}

FenceGroupStarts(s, i) ==
  IF i <= Len(s) /\ s[i] = Fence
  THEN LET a == FenceOpenEnd(s, i)
       IN  {n + 1 : n \in {m \in a..(SkipWs(s, a) - 1) :
                             s[m] = "\n" /\ FenceGroupEnds(s, m + 1) # {}}}
  ELSE {}

SearchFence(s) ==
  LET hits == {i \in 1..Len(s) : FenceGroupStarts(s, i) # {}}
  IN  IF hits = {} THEN NoMatch
      ELSE LET g == SetMax(FenceGroupStarts(s, SetMin(hits)))
           IN  [matched |-> TRUE, group |-> SubSeq(s, g, SetMin(FenceGroupEnds(s, g)) - 1)]

\* "Remove markdown code blocks if present"
StripFence(s) ==
  IF LitAt(s, 1, <<Fence>>) /\ SearchFence(s).matched THEN SearchFence(s).group ELSE s

\* result["parser_used"] = "llm": item assignment raises TypeError on
\* anything json.loads returned that is not a dict
CanSetItem(v) == v.t = "dict"

SetItem(v, k, x) ==
  Dict([f \in (DOMAIN v.d) \cup {k} |-> IF f = k THEN x ELSE v.d[f]])

\* a variant that reports the input tokens as the total
UsageInputOnly(in, out) ==
  [input_tokens |-> in, output_tokens |-> out, total_tokens |-> in]

Usage(in, out) ==
  [input_tokens |-> in, output_tokens |-> out, total_tokens |-> in + out]

\* what parse_receipt ends with: a (result, usage) pair or an exception
NoOutcome == [state |-> "none"]
Ok(data, usage) == [state |-> "ok", data |-> data, usage |-> usage]
Raised(e) == [state |-> "error", error |-> e]

\* a variant that returns whatever json.loads gave, without the tag assignment
LlmResultUntagged(replyText, receipt) ==
  LET loaded == JsonLoads(StripFence(Strip(replyText)), receipt)
  IN  IF ~loaded.ok THEN Raised("JSONDecodeError")
      ELSE [state |-> "ok", data |-> loaded.value]

\* llm_parser.parse_receipt from the reply to the tagged result
LlmResult(replyText, receipt) ==
  LET loaded == JsonLoads(StripFence(Strip(replyText)), receipt)
  IN  IF ~loaded.ok THEN Raised("JSONDecodeError")
      ELSE IF ~CanSetItem(loaded.value) THEN Raised("TypeError")
      ELSE [state |-> "ok", data |-> SetItem(loaded.value, "parser_used", "llm").d]

\* the usage stats are added to a result
LlmFinish(result, in, out) ==
  IF result.state = "ok" THEN Ok(result.data, Usage(in, out)) ELSE result

\* ------------------------------------------------------------- api.py
NoResponse == [kind |-> "none"]

\* raise HTTPException(status_code, detail) or an exception nobody catches
HttpError(status, detail) == [kind |-> "http_error", status |-> status, detail |-> detail]

\* ReceiptResponse(success=True, parser_used=..., data=..., usage=...)
ReceiptResponse(parserUsed, data, usage) ==
  [kind |-> "receipt", success |-> TRUE, parser_used |-> parserUsed,
   data |-> data, usage |-> usage, error |-> None]

\* `not request.receipt_text.strip()`
IsBlank(t) == Strip(t) = <<>>

\* a variant that runs the regex parser whatever the model call gave
AutoFallsBackAlways(outcome) == TRUE

\* auto mode, the try branch and the except branch
AutoFallsBack(outcome) == outcome.state = "error"

LlmResponse(outcome) == ReceiptResponse("llm", outcome.data, outcome.usage)

\* a variant that tags the fallback result like a plain regex result
FallbackResponseUntagged(data) == ReceiptResponse("regex", data, None)

FallbackResponse(data) == ReceiptResponse("regex_fallback", data, None)

\* a variant of llm mode that answers 200 with no data when the model fails
LlmModeResponseSwallow(outcome) ==
  IF outcome.state = "ok" THEN LlmResponse(outcome)
  ELSE ReceiptResponse("llm", None, None)

\* llm mode
LlmModeResponse(outcome) ==
  IF outcome.state = "ok" THEN LlmResponse(outcome)
  ELSE HttpError(500, <<"LLM parsing failed", outcome.error>>)

\* regex mode
RegexResponse(data) == ReceiptResponse("regex", data, None)

\* dict.get(key, default)
DictGet(d, k, default) == IF k \in DOMAIN d THEN d[k] ELSE default

\* len(x) raises TypeError unless x is sized
HasLen(v) == v.t \in {"list", "str", "dict"}

PyLen(v) ==
  CASE v.t = "list" -> Len(v.v)
    [] v.t = "str" -> Len(v.s)
    [] v.t = "dict" -> Cardinality(DOMAIN v.d)

\* a variant that counts a missing total as a match
CompareReportLoose(llmData, regexData) ==
  [merchant_match |-> PyEq(DictGet(llmData, "merchant", None),
                           DictGet(regexData, "merchant", None)),
   total_match |-> \/ DictGet(llmData, "total", None) = None
                   \/ DictGet(regexData, "total", None) = None
                   \/ PyEq(DictGet(llmData, "total", None),
                           DictGet(regexData, "total", None)),
   items_count |-> [llm |-> PyLen(DictGet(llmData, "items", List(<<>>))),
                    regex |-> PyLen(DictGet(regexData, "items", List(<<>>)))]]

\* results["comparison"]
CompareReport(llmData, regexData) ==
  [merchant_match |-> PyEq(DictGet(llmData, "merchant", None),
                           DictGet(regexData, "merchant", None)),
   total_match |-> PyEq(DictGet(llmData, "total", None),
                        DictGet(regexData, "total", None)),
   items_count |-> [llm |-> PyLen(DictGet(llmData, "items", List(<<>>))),
                    regex |-> PyLen(DictGet(regexData, "items", List(<<>>)))]]

\* results["llm"] and results["regex"]
ResultEntry(outcome) ==
  IF outcome.state = "ok"
  THEN IF "usage" \in DOMAIN outcome
       THEN [success |-> TRUE, data |-> outcome.data, usage |-> outcome.usage]
       ELSE [success |-> TRUE, data |-> outcome.data]
  ELSE [success |-> FALSE, error |-> outcome.error]

\* compare_parsers once both strategies have been tried; the comparison is
\* computed outside any try, so a TypeError of len() leaves the handler
CompareResponse(llmOutcome, regexOutcome) ==
  LET both == [llm |-> ResultEntry(llmOutcome), regex |-> ResultEntry(regexOutcome)]
  IN  IF llmOutcome.state = "ok" /\ regexOutcome.state = "ok"
      THEN IF /\ HasLen(DictGet(llmOutcome.data, "items", List(<<>>)))
              /\ HasLen(DictGet(regexOutcome.data, "items", List(<<>>)))
           THEN [kind |-> "results",
                 results |-> [llm |-> both.llm, regex |-> both.regex,
                              comparison |-> CompareReport(llmOutcome.data,
                                                           regexOutcome.data)]]
           ELSE HttpError(500, <<"Internal Server Error", "TypeError">>)
      ELSE [kind |-> "results", results |-> both]

\* test_parser.compare_parsers: its try block around the model call also
\* takes len() of the items, so a record whose items have no length is
\* reported as a failure of the model strategy
HarnessLlmEntry(outcome) ==
  IF outcome.state = "ok" /\ ~HasLen(DictGet(outcome.data, "items", List(<<>>)))
  THEN [success |-> FALSE, error |-> "TypeError"]
  ELSE ResultEntry(outcome)

\* test_parser.compare_parsers returns the two entries
HarnessResponse(llmOutcome, regexOutcome) ==
  [kind |-> "results",
   results |-> [regex |-> ResultEntry(regexOutcome), llm |-> HarnessLlmEntry(llmOutcome)]]

\* ------------------------------------------------------------- inputs
\* the reply texts the hosted model may answer with
Replies ==
  {<<"obj_echo">>,
   <<Fence, "json", "\n", "obj_echo", "\n", Fence>>,
   <<Fence, "json", "obj_echo", Fence>>,
   <<"\n", "obj_other", " ">>,
   <<"obj_null_items">>,
   <<Fence, "\n", "\n", "obj_empty", "\n", Fence, "\n">>,
   <<"array">>,
   <<Fence, "json", "\n", "null", "\n", Fence>>,
   <<"obj_other", "prose">>,
   <<"prose">>}

TokenCounts == 0..MaxTokens

ApiKeys == {"absent", "empty", "set"}
ParserModes == {"auto", "llm", "regex"}

\* -------------------------------------------------------------- state
VARIABLES
  apiKey,      \* os.getenv("ANTHROPIC_API_KEY"): "absent", "empty" or "set"
  pc,          \* where the running call is
  endpoint,    \* "auto", "llm", "regex" (POST /parse), "compare", "harness"
  text,        \* the receipt text of the call
  reply,       \* message.content[0].text, once the model has answered
  llm,         \* how llm_parser.parse_receipt ended
  regex,       \* how regex_parser.parse_receipt ended
  response,    \* what the call returned
  requests,    \* client.messages.create calls of this call
  regexCalls   \* regex_parser.parse_receipt calls of this call

vars == <<apiKey, pc, endpoint, text, reply, llm, regex, response, requests, regexCalls>>

Init ==
  /\ apiKey \in ApiKeys
  /\ pc = "idle"
  /\ endpoint = "none"
  /\ text = <<>>
  /\ reply = <<>>
  /\ llm = NoOutcome
  /\ regex = NoOutcome
  /\ response = NoResponse
  /\ requests = 0
  /\ regexCalls = 0

\* POST /parse: the blank check, then the regex branch at once or the call
\* of llm_parser.parse_receipt
Parse(p, t) ==
  /\ pc = "idle"
  /\ endpoint' = p
  /\ text' = t
  /\ IF IsBlank(t)
     THEN /\ response' = HttpError(400, <<"receipt_text cannot be empty">>)
          /\ pc' = "done"
          /\ UNCHANGED <<regex, regexCalls>>
     ELSE IF p = "regex"
     THEN /\ regex' = [state |-> "ok", data |-> RegexParse(t)]
          /\ regexCalls' = regexCalls + 1
          /\ response' = RegexResponse(regex'.data)
          /\ pc' = "done"
     ELSE /\ pc' = "llm_call"
          /\ UNCHANGED <<response, regex, regexCalls>>
  /\ UNCHANGED <<apiKey, reply, llm, requests>>

\* POST /compare: the blank check, then the call of llm_parser.parse_receipt
Compare(t) ==
  /\ pc = "idle"
  /\ endpoint' = "compare"
  /\ text' = t
  /\ IF IsBlank(t)
     THEN /\ response' = HttpError(400, <<"receipt_text cannot be empty">>)
          /\ pc' = "done"
     ELSE /\ pc' = "llm_call"
          /\ UNCHANGED response
  /\ UNCHANGED <<apiKey, reply, llm, regex, requests, regexCalls>>

\* test_parser.compare_parsers: no blank check, the regex parser first
Harness(t) ==
  /\ pc = "idle"
  /\ endpoint' = "harness"
  /\ text' = t
  /\ regex' = [state |-> "ok", data |-> RegexParse(t)]
  /\ regexCalls' = regexCalls + 1
  /\ pc' = "llm_call"
  /\ UNCHANGED <<apiKey, reply, llm, response, requests>>

\* llm_parser.parse_receipt up to the request: the credential check, then
\* client.messages.create
LlmStart ==
  /\ pc = "llm_call"
  /\ IF KeyMissing(apiKey)
     THEN /\ llm' = Raised("ValueError")
          /\ pc' = "llm_returned"
          /\ UNCHANGED requests
     ELSE /\ requests' = requests + 1
          /\ pc' = "llm_waiting"
          /\ UNCHANGED llm
  /\ UNCHANGED <<apiKey, endpoint, text, reply, regex, response, regexCalls>>

\* client.messages.create raises (network, API status), or the message has
\* no text to read: whatever ends the call before the reply text is there
LlmTransportError ==
  /\ pc = "llm_waiting"
  /\ llm' = Raised("APIError")
  /\ pc' = "llm_returned"
  /\ UNCHANGED <<apiKey, endpoint, text, reply, regex, response, requests, regexCalls>>

\* client.messages.create returns a message; the rest of parse_receipt
LlmReply(r, result, in, out) ==
  /\ pc = "llm_waiting"
  /\ reply' = r
  /\ llm' = LlmFinish(result, in, out)
  /\ pc' = "llm_returned"
  /\ UNCHANGED <<apiKey, endpoint, text, regex, response, requests, regexCalls>>

\* auto mode: the model's record is returned
AutoSuccess ==
  /\ pc = "llm_returned"
  /\ endpoint = "auto"
  /\ ~AutoFallsBack(llm)
  /\ response' = LlmResponse(llm)
  /\ pc' = "done"
  /\ UNCHANGED <<apiKey, endpoint, text, reply, llm, regex, requests, regexCalls>>

\* auto mode: except Exception, the regex parser is tried (it cannot raise
\* on a str, so the inner except of the handler is never entered)
AutoFallback ==
  /\ pc = "llm_returned"
  /\ endpoint = "auto"
  /\ AutoFallsBack(llm)
  /\ regex' = [state |-> "ok", data |-> RegexParse(text)]
  /\ regexCalls' = regexCalls + 1
  /\ response' = FallbackResponse(regex'.data)
  /\ pc' = "done"
  /\ UNCHANGED <<apiKey, endpoint, text, reply, llm, requests>>

\* llm mode: the record, or HTTP 500
LlmModeReturn ==
  /\ pc = "llm_returned"
  /\ endpoint = "llm"
  /\ response' = LlmModeResponse(llm)
  /\ pc' = "done"
  /\ UNCHANGED <<apiKey, endpoint, text, reply, llm, regex, requests, regexCalls>>

\* /compare: the regex parser, then the comparison
CompareReturn ==
  /\ pc = "llm_returned"
  /\ endpoint = "compare"
  /\ regex' = [state |-> "ok", data |-> RegexParse(text)]
  /\ regexCalls' = regexCalls + 1
  /\ response' = CompareResponse(llm, regex')
  /\ pc' = "done"
  /\ UNCHANGED <<apiKey, endpoint, text, reply, llm, requests>>

\* test_parser.compare_parsers returns
HarnessReturn ==
  /\ pc = "llm_returned"
  /\ endpoint = "harness"
  /\ response' = HarnessResponse(llm, regex)
  /\ pc' = "done"
  /\ UNCHANGED <<apiKey, endpoint, text, reply, llm, regex, requests, regexCalls>>

\* the call is over; the next one starts from scratch (no state is shared)
Finish ==
  /\ pc = "done"
  /\ pc' = "idle"
  /\ endpoint' = "none"
  /\ text' = <<>>
  /\ reply' = <<>>
  /\ llm' = NoOutcome
  /\ regex' = NoOutcome
  /\ response' = NoResponse
  /\ requests' = 0
  /\ regexCalls' = 0
  /\ UNCHANGED apiKey

\* the inputs of a call are drawn once the guard of the call holds
ParseCall == pc = "idle" /\ \E p \in ParserModes, t \in Texts : Parse(p, t)

CompareCall == pc = "idle" /\ \E t \in Texts : Compare(t)

HarnessCall == pc = "idle" /\ \E t \in Texts : Harness(t)

LlmAnswer ==
  /\ pc = "llm_waiting"
  /\ \E r \in Replies :
       LET result == LlmResult(r, text)
       IN  \E in \in TokenCounts, out \in TokenCounts : LlmReply(r, result, in, out)

Next ==
  \/ ParseCall
  \/ CompareCall
  \/ HarnessCall
  \/ LlmStart
  \/ LlmTransportError
  \/ LlmAnswer
  \/ AutoSuccess
  \/ AutoFallback
  \/ LlmModeReturn
  \/ CompareReturn
  \/ HarnessReturn
  \/ Finish

Spec == Init /\ [][Next]_vars

\* ------------------------------------------------------------ claims
RecordFields ==
  {"merchant", "date", "invoice_number", "items", "subtotal", "tax", "total"}

Occurs(lit, s) == \E i \in 1..Len(s) : LitAt(s, i, lit)

ModelFailed == llm.state = "error"

\* C1: in auto mode, on a non-blank text, a failed model call ends in a
\* successful response tagged regex_fallback whose record has, field by
\* field, what regex_parser.parse_receipt gives on the same text.
C1_AutoFallbackEqualsPattern ==
  (pc = "done" /\ endpoint = "auto" /\ ModelFailed) =>
    LET r == RegexParse(text)
    IN  /\ ~IsBlank(text)
        /\ response.kind = "receipt"
        /\ response.success
        /\ response.parser_used = "regex_fallback"
        /\ \A f \in RecordFields : response.data[f] = r[f]

C1_Witness ==
  /\ pc = "done" /\ endpoint = "auto" /\ ModelFailed
  /\ llm.error = "APIError"
  /\ response.kind = "receipt"
  /\ response.parser_used = "regex_fallback"
  /\ response.data.items.v # <<>>
  /\ response.data.total # None

\* C2: in an auto-mode call at most one model request is sent, the regex
\* parser is not called before the model call has ended, it is called only
\* when the model call ended in an error, and never when it succeeded.
C2_AutoSequential ==
  endpoint = "auto" =>
    /\ requests <= 1
    /\ regexCalls <= 1
    /\ (pc \in {"llm_call", "llm_waiting", "llm_returned"} => regexCalls = 0)
    /\ (regexCalls > 0 => ModelFailed /\ pc = "done")
    /\ (llm.state = "ok" => regexCalls = 0 /\ regex = NoOutcome)

C2_Witness ==
  /\ endpoint = "auto" /\ pc = "done"
  /\ requests = 1
  /\ regexCalls = 1
  /\ ModelFailed

\* C3 (as claimed): with the credential missing, both llm mode and auto
\* mode end in an error response.
C3_ConfigErrorSurfacedInEveryMode ==
  (pc = "done" /\ endpoint \in {"auto", "llm"} /\ ModelFailed /\ llm.error = "ValueError")
    => response.kind = "http_error"

\* C3 (amended): with the credential missing no request is sent; llm mode
\* ends in HTTP 500, and auto mode treats it like any other model failure
\* and returns the regex result tagged regex_fallback, without usage.
C3_ConfigErrorByMode ==
  (pc = "done" /\ endpoint \in {"auto", "llm"} /\ ModelFailed /\ llm.error = "ValueError")
    => /\ requests = 0
       /\ (endpoint = "llm" => response.kind = "http_error" /\ response.status = 500)
       /\ (endpoint = "auto" =>
             /\ response.kind = "receipt"
             /\ response.parser_used = "regex_fallback"
             /\ response.usage = None)

C3_Witness ==
  /\ pc = "done" /\ endpoint = "llm" /\ ModelFailed
  /\ llm.error = "ValueError"
  /\ response.kind = "http_error"

\* C4: a /compare call on a non-blank text returns an entry for each
\* strategy, each with its own record or error, and the comparison is there
\* exactly when both strategies succeeded.
C4_CompareReportsBoth ==
  (pc = "done" /\ endpoint = "compare" /\ ~IsBlank(text)) =>
    /\ response.kind = "results"
    /\ {"llm", "regex"} \subseteq DOMAIN response.results
    /\ response.results.llm.success = (llm.state = "ok")
    /\ response.results.regex.success = (regex.state = "ok")
    /\ ("comparison" \in DOMAIN response.results)
         <=> (response.results.llm.success /\ response.results.regex.success)

\* C5: regex_parser.parse_receipt returns a record on every text; a field
\* whose label does not occur in the text is None (not 0.0), a blank text
\* has no merchant, a text without a dash has no items, and on the empty
\* text every field is None and items is empty.
C5_PatternTotalAndAbsent ==
  /\ (pc = "done" /\ endpoint = "harness" => response.results.regex.success)
  /\ (regex.state = "ok" /\ llm.state = "none") =>
       LET r == regex.data
       IN  /\ DOMAIN r = RecordFields \cup {"parser_used"}
           /\ \A f \in {"subtotal", "tax", "total"} : r[f] = None \/ r[f].t = "float"
           /\ \A f \in {"merchant", "date", "invoice_number"} : r[f] = None \/ r[f].t = "str"
           /\ (IsBlank(text) <=> r.merchant = None)
           /\ (~Occurs(LblDate, text) => r.date = None)
           /\ (~Occurs(LblInvoice, text) => r.invoice_number = None)
           /\ (~Occurs(LblTotal, text) => r.total = None)
           /\ (~Occurs(LblSubtotal, text) => r.subtotal = None)
           /\ (~Occurs(<<"T", "a", "x">>, text) => r.tax = None)
           /\ (~Occurs(<<"-">>, text) => r.items = List(<<>>))
           /\ (text = <<>> =>
                 /\ \A f \in RecordFields \ {"items"} : r[f] = None
                 /\ r.items = List(<<>>))

C5_Witness ==
  /\ endpoint = "harness" /\ pc = "done"
  /\ text = <<>>
  /\ regex.state = "ok"
  /\ regex.data.total = None
  /\ response.results.regex.success

\* C6: when /compare reports a comparison, merchant_match says whether the
\* two merchants are equal, total_match whether the two totals are equal (one
\* absent and one present is a mismatch), items_count holds the two lengths;
\* two records with equal fields give two matches and equal counts.
FieldOr(d, k, default) == IF k \in DOMAIN d THEN d[k] ELSE default

C6_ComparatorFields ==
  (pc = "done" /\ response.kind = "results" /\ "comparison" \in DOMAIN response.results) =>
    LET c == response.results.comparison
        a == response.results.llm.data
        b == response.results.regex.data
        aItems == FieldOr(a, "items", List(<<>>))
    IN  /\ c.merchant_match = (FieldOr(a, "merchant", None) = b.merchant)
        /\ c.total_match = (FieldOr(a, "total", None) = b.total)
        /\ ((FieldOr(a, "total", None) = None) # (b.total = None) => ~c.total_match)
        /\ aItems.t = "list"
        /\ c.items_count = [llm |-> Len(aItems.v), regex |-> Len(b.items.v)]
        /\ ((\A f \in RecordFields : f \in DOMAIN a /\ a[f] = b[f]) =>
              /\ c.merchant_match
              /\ c.total_match
              /\ c.items_count.llm = c.items_count.regex)

C6_Witness ==
  /\ pc = "done" /\ endpoint = "compare"
  /\ response.kind = "results"
  /\ "comparison" \in DOMAIN response.results
  /\ response.results.comparison.merchant_match
  /\ response.results.comparison.total_match
  /\ response.results.regex.data.total # None
  /\ response.results.comparison.items_count = [llm |-> 1, regex |-> 1]

\* C7: the items of the regex record are the dash-bulleted lines the item
\* pattern matches, one item each, in the order of the lines; a
\* dash-bulleted line it does not match is left out and the lines before and
\* after it are still taken.
IsItemLine(line) == LitAt(Strip(line), 1, <<"-">>) /\ SearchItem(line).matched

ItemP == [description |-> <<"P">>, amount |-> Float(45, 1)]
ItemQ == [description |-> <<"Q">>, amount |-> Float(805, 2)]

C7_ItemsInOrder ==
  (regex.state = "ok" /\ llm.state = "none") =>
    LET lines == Split(Strip(text))
        good == {i \in 1..Len(lines) : IsItemLine(lines[i])}
        items == regex.data.items.v
        written == SelectSeq(Split(text), LAMBDA l : l \in {FragItemP, FragItemQ})
    IN  /\ Len(items) = Cardinality(good)
        /\ \A k \in 1..Len(items) :
             LET i == CHOOSE x \in good : Cardinality({y \in good : y < x}) = k - 1
             IN  items[k] = SearchItem(lines[i]).item
        /\ items = [k \in 1..Len(written) |-> IF written[k] = FragItemP THEN ItemP ELSE ItemQ]

C7_Witness ==
  /\ regex.state = "ok"
  /\ text = FragBadItem \o <<"\n">> \o FragItemQ
  /\ regex.data.items = List(<<ItemQ>>)

\* C8: the model call ends with a record exactly when the reply, stripped
\* and unfenced, is one JSON object; any other reply ends it in an error,
\* and an error of the model call gives HTTP 500 in llm mode and the regex
\* fallback in auto mode, whatever the error is.
IsObjectText(s) == Len(Strip(s)) = 1 /\ Strip(s)[1] \in ObjectDocs

C8_OnlyObjectsSucceed ==
  /\ (reply # <<>> => ((llm.state = "ok") <=> IsObjectText(StripFence(Strip(reply)))))
  /\ (reply # <<>> /\ llm.state # "ok" => ModelFailed)
  /\ (pc = "done" /\ ModelFailed /\ endpoint = "llm" =>
        response.kind = "http_error" /\ response.status = 500)
  /\ (pc = "done" /\ ModelFailed /\ endpoint = "auto" =>
        response.kind = "receipt" /\ response.parser_used = "regex_fallback")

C8_Witness ==
  /\ pc = "done" /\ endpoint = "auto"
  /\ reply = <<"array">>
  /\ ModelFailed
  /\ llm.error = "TypeError"
  /\ response.kind = "receipt"
  /\ response.parser_used = "regex_fallback"

\* C9: a successful /parse response has usage stats exactly when its record
\* comes from the model (parser_used = llm), and then total_tokens is
\* input_tokens + output_tokens; regex and regex_fallback responses have none.
C9_UsageOnlyForModel ==
  response.kind = "receipt" =>
    /\ response.parser_used \in {"llm", "regex", "regex_fallback"}
    /\ (response.usage # None) <=> (response.parser_used = "llm")
    /\ (response.parser_used = "llm") <=> (llm.state = "ok" /\ regexCalls = 0)
    /\ (response.parser_used = "llm" =>
          /\ response.data.parser_used = "llm"
          /\ response.usage.total_tokens
               = response.usage.input_tokens + response.usage.output_tokens)

C9_Witness ==
  /\ response.kind = "receipt"
  /\ response.parser_used = "llm"
  /\ response.usage # None
  /\ response.usage.input_tokens = 1
  /\ response.usage.output_tokens = 1
  /\ response.usage.total_tokens = 2

\* C10: with the credential absent (or empty) no request is ever sent, and
\* the model call has ended in the ValueError of the credential check
\* whenever it has ended.
C10_KeyCheckedBeforeRequest ==
  apiKey \in {"absent", "empty"} =>
    /\ requests = 0
    /\ pc # "llm_waiting"
    /\ (llm.state # "none" => ModelFailed /\ llm.error = "ValueError")

C10_Witness ==
  /\ apiKey = "absent"
  /\ pc = "llm_returned"
  /\ ModelFailed
  /\ llm.error = "ValueError"
  /\ requests = 0

====
